---- MODULE Spec2Model ----
(***************************************************************************)
(* Model of preserve() in packages/preserve/lib/preserve.ts: validation of *)
(* the requested loader, loading of the target, breadth-first planning     *)
(* over the recipe registry, and the sequential executor that drives each  *)
(* planned recipe and emits the event stream.                              *)
(*                                                                         *)
(* preserve() is an async generator: its body only advances while a        *)
(* consumer's next() is outstanding (variable demand) and it suspends at   *)
(* every yield.  The step controller (./processes) and the recipes'        *)
(* preserve computations are collaborators outside this file; the          *)
(* controller is modelled from its documented contract, a recipe's         *)
(* computation as a nondeterministic choice of what it does when resumed.  *)
(***************************************************************************)
EXTENDS Naturals, Sequences, FiniteSets

\* ------------------------------------------------------------- bounds
\* Recipe names a registry or a dependency list may mention.
Names == {"a", "b", "c"}
\* Total number of dependency entries in a registry.
MaxEdges == 3
\* Values the recipe computations of one run yield in total: the loop at
\* lines 102-111 forwards any number, a run is followed up to its limit.
\* MaxYield is the limit of the runs over all registries, MaxForward that of
\* the runs over the two-recipe chain.
MaxYield == 1
MaxForward == 3
\* The loader registry, and the loader names a request may carry.
LoaderNames == {"L"}
RequestLoaders == {"L", "M"}
\* The root recipe names a request may carry.
RequestRecipes == {"a"}

VARIABLES
    request,     \* options.request: loader, recipe, settings (optional field)
    loaders,     \* options.loaders: set of registered loader names
    recipes,     \* options.recipes: registered name -> Recipe
    pc,          \* position of the generator body
    demand,      \* TRUE while a consumer next() is outstanding
    loadCalls,   \* number of invocations of loader.load
    target,      \* const target (line 41)
    visited,     \* const visited (line 47)
    queue,       \* const queue (line 48)
    plan,        \* const plan (line 50)
    dequeues,    \* number of queue.shift() calls made by the planning loop
    dequeued,    \* the names queue.shift() returned, in order
    labels,      \* let labels (line 74)
    idx,         \* position in plan of the for-of loop (line 76), 1-based
    controller,  \* const controller (line 82)
    label,       \* let label (line 80)
    yielded,     \* events the current recipe computation has yielded so far
    yieldLimit,  \* number of values the computations of this run yield at most
    pending,     \* TRUE while the generator is parked at await preserves.next()
    yields,      \* what the computations have yielded: plan position, place
                 \* in the output stream, value
    started,     \* plan positions whose preserve computation was started
    contexts,    \* contents of labels when each started computation's
                 \* context was built (line 95), in order
    events,      \* the events preserve() has yielded to its consumer
    error        \* the error preserve() has thrown, if any

vars == << request, loaders, recipes, pc, demand, loadCalls, target, visited,
           queue, plan, dequeues, dequeued, labels, idx, controller, label,
           yielded, yieldLimit, pending, yields, started, contexts, events,
           error >>

\* ------------------------------------------------------------ helpers
RECURSIVE SeqsUpTo(_, _)
SeqsUpTo(S, n) ==
    IF n = 0 THEN {<< >>}
    ELSE LET shorter == SeqsUpTo(S, n - 1)
         IN shorter \cup {Append(s, x) : s \in shorter, x \in S}

RECURSIVE SumLen(_, _)
SumLen(f, D) ==
    IF D = {} THEN 0
    ELSE LET k == CHOOSE k \in D : TRUE
         IN Len(f[k]) + SumLen(f, D \ {k})

Range(s) == {s[i] : i \in 1..Len(s)}

Last(s) == s[Len(s)]

EmptyMap == [n \in {} |-> 0]

\* Map.prototype.set
MapSet(m, k, v) == [n \in DOMAIN m \cup {k} |-> IF n = k THEN v ELSE m[n]]

Undefined == "undefined"
NoError == [type |-> "none", kind |-> "", name |-> "", choices |-> {}]
NoController == [scope |-> << >>, state |-> "None"]

\* The dependency lists a recipe may declare (string[]: any order, repeats
\* and self-references included).
DepLists == SeqsUpTo(Names, MaxEdges)

\* A registry maps each registered name to the Recipe carrying that name.
Registry(D, d) == [k \in D |-> [name |-> k, dependencies |-> d[k]]]

\* ------------------------------------------------------ assertModuleExists
UnknownModule(kind, name, modules) ==
    [type |-> "UnknownModule", kind |-> kind, name |-> name, choices |-> modules]

\* Dereferencing the undefined result of Map.get (recipe.name, current.name).
TypeError == [type |-> "TypeError", kind |-> "", name |-> "", choices |-> {}]

assertModuleExists(name, kind, modules) ==
    IF name \notin modules THEN UnknownModule(kind, name, modules) ELSE NoError

assertLoaderExists(name, modules) == assertModuleExists(name, "loader", modules)

assertRecipeExists(name, modules) == assertModuleExists(name, "recipe", modules)

\* -------------------------------------------------------- step controller
Event(type, scope, data) == [type |-> type, scope |-> scope, data |-> data]

\* new Controller({scope}); begin() emits Begin and the controller is active.
ControllerBegin(scope) ==
    [events |-> << Event("begin", scope, 0) >>,
     controller |-> [scope |-> scope, state |-> "Active"]]

\* succeed({label}): when the step lifecycle is consistent it emits Succeed
\* carrying the label and ends Done; otherwise it does not reach Done and
\* emits its succeed event or nothing.
ControllerSucceed(c, l, consistent, emits) ==
    [events |-> IF consistent \/ emits
                THEN << Event("succeed", c.scope, l) >> ELSE << >>,
     controller |-> [c EXCEPT !.state = IF consistent THEN "Done" ELSE "Active"]]

\* fail({error}) emits Fail carrying the error.
ControllerFail(c) ==
    [events |-> << Event("fail", c.scope, 0) >>,
     controller |-> [c EXCEPT !.state = "Error"]]

\* --------------------------------------------------------------- Init
Init ==
    /\ request \in [loader : RequestLoaders, recipe : RequestRecipes,
                    hasSettings : BOOLEAN, settings : {EmptyMap}]
    /\ loaders = LoaderNames
    /\ \E D \in SUBSET Names : \E d \in [D -> DepLists] :
         /\ SumLen(d, D) <= MaxEdges
         /\ recipes = Registry(D, d)
    /\ pc = "start"
    /\ demand = FALSE
    /\ loadCalls = 0
    /\ target = Undefined
    /\ visited = {}
    /\ queue = << >>
    /\ plan = << >>
    /\ dequeues = 0
    /\ dequeued = << >>
    /\ labels = EmptyMap
    /\ idx = 0
    /\ controller = NoController
    /\ label = 0
    /\ yielded = 0
    /\ yieldLimit = MaxYield
    /\ pending = FALSE
    /\ yields = << >>
    /\ started = << >>
    /\ contexts = << >>
    /\ events = << >>
    /\ error = NoError

\* The generator is finished: it threw, or returned at line 115 ("halted"),
\* line 123 ("aborted") or line 128 ("completed").
Ended == pc \in {"thrown", "halted", "aborted", "completed"}

\* The consumer asks for the next event.
Pull ==
    /\ ~demand
    /\ ~Ended
    /\ demand' = TRUE
    /\ UNCHANGED << yieldLimit, pending, yields, request, loaders, recipes, pc, loadCalls, target, visited,
                    queue, plan, dequeues, dequeued, labels, idx, controller, label,
                    yielded, started, contexts, events, error >>

\* Lines 22-24: request.settings defaults to an empty map.
DefaultSettings(r) ==
    IF r.hasSettings THEN r
    ELSE [r EXCEPT !.hasSettings = TRUE, !.settings = EmptyMap]

\* Lines 20-29, the loader is missing: assertLoaderExists throws.
AssertLoaderFails ==
    /\ pc = "start"
    /\ demand
    /\ assertLoaderExists(request.loader, loaders) # NoError
    /\ request' = DefaultSettings(request)
    /\ error' = assertLoaderExists(request.loader, loaders)
    /\ pc' = "thrown"
    /\ demand' = FALSE
    /\ UNCHANGED << yieldLimit, pending, yields, loaders, recipes, loadCalls, target, visited, queue, plan,
                    dequeues, dequeued, labels, idx, controller, label, yielded,
                    started, contexts, events >>

\* Variant of Setup: setup and loading run when preserve() is called, before
\* any event is asked for.
Setup_Eager ==
    /\ pc = "start"
    /\ assertLoaderExists(request.loader, loaders) = NoError
    /\ request' = DefaultSettings(request)
    /\ loadCalls' = loadCalls + 1
    /\ pc' = "loading"
    /\ demand' = TRUE
    /\ UNCHANGED << yieldLimit, pending, yields, loaders, recipes, target, visited, queue, plan,
                    dequeues, dequeued, labels, idx, controller, label,
                    yielded, started, contexts, events, error >>

\* Lines 20-41, the loader is registered: loader.load is invoked and awaited.
Setup ==
    /\ pc = "start"
    /\ demand
    /\ assertLoaderExists(request.loader, loaders) = NoError
    /\ request' = DefaultSettings(request)
    /\ loadCalls' = loadCalls + 1
    /\ pc' = "loading"
    /\ UNCHANGED << yieldLimit, pending, yields, loaders, recipes, demand, target, visited, queue, plan,
                    dequeues, dequeued, labels, idx, controller, label, yielded,
                    started, contexts, events, error >>

\* Lines 41-50: load resolves; recipe.name of an unregistered root recipe
\* (recipes.get gave undefined, line 35) throws a TypeError.
Loaded ==
    /\ pc = "loading"
    /\ target' = "T"
    /\ IF request.recipe \notin DOMAIN recipes
       THEN /\ error' = TypeError
            /\ pc' = "thrown"
            /\ demand' = FALSE
            /\ UNCHANGED << visited, queue, plan >>
       ELSE /\ visited' = {}
            /\ queue' = << recipes[request.recipe].name >>
            /\ plan' = << >>
            /\ pc' = "planning"
            /\ UNCHANGED << error, demand >>
    /\ UNCHANGED << yieldLimit, pending, yields, request, loaders, recipes, loadCalls, dequeues, dequeued, labels,
                    idx, controller, label, yielded, started, contexts, events >>

\* The errors a failing load is seen to raise.
LoadErrors == {"load failed", "load threw"}

\* An error raised by the loader, passed on as it is.
LoadError(name) == [type |-> "Other", kind |-> "", name |-> name, choices |-> {}]

\* Lines 40-41: loader.load throws or its promise rejects; the await is
\* outside any try, so preserve() throws the loader's error.
LoadFails ==
    /\ pc = "loading"
    /\ demand
    /\ \E name \in LoadErrors : error' = LoadError(name)
    /\ pc' = "thrown"
    /\ demand' = FALSE
    /\ UNCHANGED << yieldLimit, request, loaders, recipes, loadCalls, target, visited,
                    queue, plan, dequeues, dequeued, labels, idx, controller,
                    label, yielded, pending, yields, started, contexts,
                    events >>

\* Lines 61-63: the dependencies not yet visited, in listing order
\* (Array.prototype.filter against the visited set as it is before line 65).
RECURSIVE Unvisited(_, _)
Unvisited(dependencies, seen) ==
    IF dependencies = << >> THEN << >>
    ELSE IF Head(dependencies) \notin seen
         THEN << Head(dependencies) >> \o Unvisited(Tail(dependencies), seen)
         ELSE Unvisited(Tail(dependencies), seen)

\* Variant of PlanStep: an unregistered name is dropped from the queue
\* instead of failing the run.
PlanStep_SkipsUnregistered ==
    /\ pc = "planning"
    /\ queue # << >>
    /\ dequeues' = dequeues + 1
    /\ dequeued' = Append(dequeued, Head(queue))
    /\ IF Head(queue) \notin DOMAIN recipes
       THEN /\ queue' = Tail(queue)
            /\ UNCHANGED << plan, visited >>
       ELSE LET current == recipes[Head(queue)]
            IN /\ plan' = << current >> \o plan
               /\ visited' = visited \cup Range(Unvisited(current.dependencies, visited))
               /\ queue' = Tail(queue) \o Unvisited(current.dependencies, visited)
    /\ UNCHANGED << yieldLimit, pending, yields, request, loaders, recipes, pc, demand, loadCalls, target,
                    labels, idx, controller, label, yielded, started, contexts, events,
                    error >>

\* Variant of PlanStep: the dequeued recipe is pushed at the end of the plan.
PlanStep_Appends ==
    /\ pc = "planning"
    /\ queue # << >>
    /\ dequeues' = dequeues + 1
    /\ dequeued' = Append(dequeued, Head(queue))
    /\ IF Head(queue) \notin DOMAIN recipes
       THEN /\ error' = TypeError
            /\ pc' = "thrown"
            /\ demand' = FALSE
            /\ queue' = Tail(queue)
            /\ UNCHANGED << plan, visited >>
       ELSE LET current == recipes[Head(queue)]
            IN /\ plan' = Append(plan, current)
               /\ visited' = visited \cup Range(Unvisited(current.dependencies, visited))
               /\ queue' = Tail(queue) \o Unvisited(current.dependencies, visited)
               /\ UNCHANGED << error, pc, demand >>
    /\ UNCHANGED << yieldLimit, pending, yields, request, loaders, recipes, loadCalls, target, labels, idx,
                    controller, label, yielded, started, contexts, events >>

\* Variant of PlanStep: the queue is used as a stack (pop instead of shift).
PlanStep_Pops ==
    /\ pc = "planning"
    /\ queue # << >>
    /\ dequeues' = dequeues + 1
    /\ dequeued' = Append(dequeued, Last(queue))
    /\ IF Last(queue) \notin DOMAIN recipes
       THEN /\ error' = TypeError
            /\ pc' = "thrown"
            /\ demand' = FALSE
            /\ queue' = SubSeq(queue, 1, Len(queue) - 1)
            /\ UNCHANGED << plan, visited >>
       ELSE LET current == recipes[Last(queue)]
            IN /\ plan' = << current >> \o plan
               /\ visited' = visited \cup Range(Unvisited(current.dependencies, visited))
               /\ queue' = SubSeq(queue, 1, Len(queue) - 1)
                              \o Unvisited(current.dependencies, visited)
               /\ UNCHANGED << error, pc, demand >>
    /\ UNCHANGED << yieldLimit, pending, yields, request, loaders, recipes, loadCalls, target, labels, idx,
                    controller, label, yielded, started, contexts, events >>

\* Lines 51-69: one iteration of the planning loop.
PlanStep ==
    /\ pc = "planning"
    /\ queue # << >>
    /\ dequeues' = dequeues + 1
    /\ dequeued' = Append(dequeued, Head(queue))
    /\ IF Head(queue) \notin DOMAIN recipes
       THEN \* current is undefined: current.name throws (line 55)
            /\ error' = TypeError
            /\ pc' = "thrown"
            /\ demand' = FALSE
            /\ queue' = Tail(queue)
            /\ UNCHANGED << plan, visited >>
       ELSE LET current == recipes[Head(queue)]
                missing == assertRecipeExists(current.name, DOMAIN recipes)
            IN IF missing # NoError
               THEN /\ error' = missing
                    /\ pc' = "thrown"
                    /\ demand' = FALSE
                    /\ queue' = Tail(queue)
                    /\ UNCHANGED << plan, visited >>
               ELSE /\ plan' = << current >> \o plan
                    /\ visited' = visited \cup Range(Unvisited(current.dependencies, visited))
                    /\ queue' = Tail(queue) \o Unvisited(current.dependencies, visited)
                    /\ UNCHANGED << error, pc, demand >>
    /\ UNCHANGED << yieldLimit, pending, yields, request, loaders, recipes, loadCalls, target, labels, idx,
                    controller, label, yielded, started, contexts, events >>

\* Lines 51, 74: the queue is empty; execution starts with no labels.
PlanDone ==
    /\ pc = "planning"
    /\ queue = << >>
    /\ labels' = EmptyMap
    /\ idx' = 1
    /\ pc' = "loop"
    /\ UNCHANGED << yieldLimit, pending, yields, request, loaders, recipes, demand, loadCalls, target,
                    visited, queue, plan, dequeues, dequeued, controller, label,
                    yielded, started, contexts, events, error >>

\* Lines 76-86: the next plan entry gets a fresh controller, whose begin
\* events are yielded.
Begin ==
    /\ pc = "loop"
    /\ demand
    /\ idx <= Len(plan)
    /\ LET b == ControllerBegin(<< plan[idx].name >>)
       IN /\ controller' = b.controller
          /\ events' = events \o b.events
    /\ label' = 0
    /\ yielded' = 0
    /\ demand' = FALSE
    /\ pc' = "run"
    /\ UNCHANGED << yieldLimit, pending, yields, request, loaders, recipes, loadCalls, target, visited,
                    queue, plan, dequeues, dequeued, labels, idx, started, contexts, error >>

\* Lines 76, 128: the plan is exhausted; the generator returns.
Finish ==
    /\ pc = "loop"
    /\ demand
    /\ idx > Len(plan)
    /\ pc' = "completed"
    /\ demand' = FALSE
    /\ UNCHANGED << yieldLimit, pending, yields, request, loaders, recipes, loadCalls, target, visited,
                    queue, plan, dequeues, dequeued, labels, idx, controller, label,
                    yielded, started, contexts, events, error >>

\* Line 95 (first resumption) and line 103: the computation is resumed.
Resumed == IF yielded = 0 /\ (started = << >> \/ Last(started) # idx)
           THEN Append(started, idx) ELSE started

\* Lines 95-100: the context handed to the computation carries labels.
Built == IF yielded = 0 /\ (started = << >> \/ Last(started) # idx)
         THEN Append(contexts, labels) ELSE contexts

\* Lines 88-103: on the first pass recipe.preserve is called with the
\* context; preserves.next() is called and the generator parks at the await.
CallNext ==
    /\ pc = "run"
    /\ demand
    /\ ~pending
    /\ started' = Resumed
    /\ contexts' = Built
    /\ pending' = TRUE
    /\ UNCHANGED << yieldLimit, request, loaders, recipes, pc, demand, loadCalls, target,
                    visited, queue, plan, dequeues, dequeued, labels, idx,
                    controller, label, yielded, yields, events, error >>

\* Lines 94-95, 112: the call recipe.preserve itself throws, inside the try.
PreserveThrows ==
    /\ pc = "run"
    /\ demand
    /\ ~pending
    /\ yielded = 0
    /\ started' = Resumed
    /\ contexts' = Built
    /\ pc' = "fail"
    /\ UNCHANGED << yieldLimit, request, loaders, recipes, demand, loadCalls, target,
                    visited, queue, plan, dequeues, dequeued, labels, idx,
                    controller, label, yielded, pending, yields, events,
                    error >>

\* The values a computation may yield as its k-th: an event of its own
\* scope, or any other event value (here a succeed or a fail event scoped
\* to the root).
YieldValues(scope, k) ==
    {Event("log", scope, k),
     Event("succeed", << request.recipe >>, 7),
     Event("fail", << request.recipe >>, 0)}

\* Variant of RecipeYield: the event the computation yields is not forwarded.
RecipeYield_Drops ==
    /\ pc = "run"
    /\ demand
    /\ pending
    /\ Len(yields) < yieldLimit
    /\ \E value \in YieldValues(controller.scope, yielded + 1) :
         yields' = Append(yields, [pos |-> idx, at |-> Len(events) + 1,
                                   value |-> value])
    /\ yielded' = yielded + 1
    /\ pending' = FALSE
    /\ UNCHANGED << yieldLimit, request, loaders, recipes, pc, demand, loadCalls, target,
                    visited, queue, plan, dequeues, dequeued, labels, idx,
                    controller, label, started, contexts, events, error >>

\* Lines 103-110: preserves.next() resolves with a value the computation
\* yielded; the value is yielded to the consumer as it is.
RecipeYield ==
    /\ pc = "run"
    /\ demand
    /\ pending
    /\ Len(yields) < yieldLimit
    /\ \E value \in YieldValues(controller.scope, yielded + 1) :
         /\ yields' = Append(yields, [pos |-> idx, at |-> Len(events) + 1,
                                      value |-> value])
         /\ events' = Append(events, value)
    /\ yielded' = yielded + 1
    /\ pending' = FALSE
    /\ demand' = FALSE
    /\ UNCHANGED << yieldLimit, request, loaders, recipes, pc, loadCalls, target, visited,
                    queue, plan, dequeues, dequeued, labels, idx, controller,
                    label, started, contexts, error >>

\* Lines 103-108: preserves.next() resolves done, with the computation's
\* label (a token naming the execution that produced it).
RecipeComplete ==
    /\ pc = "run"
    /\ demand
    /\ pending
    /\ label' = idx
    /\ pending' = FALSE
    /\ pc' = "succeed"
    /\ UNCHANGED << yieldLimit, request, loaders, recipes, demand, loadCalls, target,
                    visited, queue, plan, dequeues, dequeued, labels, idx,
                    controller, yielded, yields, started, contexts, events,
                    error >>

\* Lines 103, 112: preserves.next() rejects; the computation raised.
RecipeRaise ==
    /\ pc = "run"
    /\ demand
    /\ pending
    /\ pending' = FALSE
    /\ pc' = "fail"
    /\ UNCHANGED << yieldLimit, request, loaders, recipes, demand, loadCalls, target,
                    visited, queue, plan, dequeues, dequeued, labels, idx,
                    controller, label, yielded, yields, started, contexts,
                    events, error >>

\* Variant of Fail: the catch block yields nothing.
Fail_Silent ==
    /\ pc = "fail"
    /\ demand
    /\ pc' = "failed"
    /\ UNCHANGED << yieldLimit, pending, yields, request, loaders, recipes, demand, loadCalls, target,
                    visited, queue, plan, dequeues, dequeued, labels, idx, controller,
                    label, yielded, started, contexts, events, error >>

\* Line 113: the controller's fail events are yielded.
Fail ==
    /\ pc = "fail"
    /\ demand
    /\ LET f == ControllerFail(controller)
       IN /\ controller' = f.controller
          /\ events' = events \o f.events
    /\ demand' = FALSE
    /\ pc' = "failed"
    /\ UNCHANGED << yieldLimit, pending, yields, request, loaders, recipes, loadCalls, target, visited,
                    queue, plan, dequeues, dequeued, labels, idx, label, yielded,
                    started, contexts, error >>

\* Variant of ReturnAfterFail: the catch block falls through to the next
\* plan entry.
ReturnAfterFail_Continues ==
    /\ pc = "failed"
    /\ demand
    /\ idx' = idx + 1
    /\ pc' = "loop"
    /\ UNCHANGED << yieldLimit, pending, yields, request, loaders, recipes, demand, loadCalls, target,
                    visited, queue, plan, dequeues, dequeued, labels, controller, label,
                    yielded, started, contexts, events, error >>

\* Line 115: return after the fail events.
ReturnAfterFail ==
    /\ pc = "failed"
    /\ demand
    /\ pc' = "halted"
    /\ demand' = FALSE
    /\ UNCHANGED << yieldLimit, pending, yields, request, loaders, recipes, loadCalls, target, visited,
                    queue, plan, dequeues, dequeued, labels, idx, controller, label,
                    yielded, started, contexts, events, error >>

\* Variant of Succeed: the controller's succeed events are not yielded.
Succeed_Dropped ==
    /\ pc = "succeed"
    /\ demand
    /\ \E consistent \in BOOLEAN, emits \in BOOLEAN :
         controller' = ControllerSucceed(controller, label, consistent, emits).controller
    /\ pc' = "check"
    /\ UNCHANGED << yieldLimit, pending, yields, request, loaders, recipes, demand, loadCalls, target,
                    visited, queue, plan, dequeues, dequeued, labels, idx,
                    label, yielded, started, contexts, events, error >>

\* Line 120: the controller's succeed events are yielded.
Succeed ==
    /\ pc = "succeed"
    /\ demand
    /\ \E consistent \in BOOLEAN, emits \in BOOLEAN :
         LET s == ControllerSucceed(controller, label, consistent, emits)
         IN /\ controller' = s.controller
            /\ events' = events \o s.events
            /\ demand' = (s.events = << >>)
    /\ pc' = "check"
    /\ UNCHANGED << yieldLimit, pending, yields, request, loaders, recipes, loadCalls, target, visited,
                    queue, plan, dequeues, dequeued, labels, idx, label, yielded,
                    started, contexts, error >>

\* Variant of Abort: the controller's state is not consulted.
Abort_Records ==
    /\ pc = "check"
    /\ demand
    /\ controller.state # "Done"
    /\ labels' = MapSet(labels, plan[idx].name, label)
    /\ idx' = idx + 1
    /\ pc' = "loop"
    /\ UNCHANGED << yieldLimit, pending, yields, request, loaders, recipes, demand, loadCalls, target,
                    visited, queue, plan, dequeues, dequeued, controller, label,
                    yielded, started, contexts, events, error >>

\* Lines 122-124: the controller is not Done; return without recording.
Abort ==
    /\ pc = "check"
    /\ demand
    /\ controller.state # "Done"
    /\ pc' = "aborted"
    /\ demand' = FALSE
    /\ UNCHANGED << yieldLimit, pending, yields, request, loaders, recipes, loadCalls, target, visited,
                    queue, plan, dequeues, dequeued, labels, idx, controller, label,
                    yielded, started, contexts, events, error >>

\* Lines 122-127: the controller is Done; record the label and go on.
Record ==
    /\ pc = "check"
    /\ demand
    /\ controller.state = "Done"
    /\ labels' = MapSet(labels, plan[idx].name, label)
    /\ idx' = idx + 1
    /\ pc' = "loop"
    /\ UNCHANGED << yieldLimit, pending, yields, request, loaders, recipes, demand, loadCalls, target,
                    visited, queue, plan, dequeues, dequeued, controller, label,
                    yielded, started, contexts, events, error >>

Next ==
    \/ Pull
    \/ AssertLoaderFails
    \/ Setup
    \/ Loaded
    \/ LoadFails
    \/ PlanStep
    \/ PlanDone
    \/ Begin
    \/ Finish
    \/ CallNext
    \/ PreserveThrows
    \/ RecipeYield
    \/ RecipeComplete
    \/ RecipeRaise
    \/ Fail
    \/ ReturnAfterFail
    \/ Succeed
    \/ Abort
    \/ Record

Spec == Init /\ [][Next]_vars


\* ------------------------------------------------- the dependency graph
\* The names recipe n lists as dependencies (none when n is unregistered).
DepsOf(n) == IF n \in DOMAIN recipes THEN Range(recipes[n].dependencies) ELSE {}

RECURSIVE Closure(_)
Closure(S) ==
    LET T == S \cup UNION {DepsOf(n) : n \in S}
    IN IF T = S THEN S ELSE Closure(T)

\* The root and every name referenced directly or transitively from it.
Referenced == Closure({request.recipe})

\* No recipe is among its own transitive dependencies.
Acyclic == \A n \in DOMAIN recipes : n \notin Closure(DepsOf(n))

LoaderMissing == request.loader \notin loaders
RootMissing == request.recipe \notin DOMAIN recipes
RecipeMissing == ~(Referenced \subseteq DOMAIN recipes)

\* Planning is over and the plan is final.
PlanBuilt == pc \in {"loop", "run", "succeed", "check", "fail", "failed",
                     "halted", "aborted", "completed"}

Positions(n) == {i \in 1..Len(plan) : plan[i].name = n}
PlanNames == {plan[i].name : i \in 1..Len(plan)}

\* The i-th event of the output stream is a value a computation yielded;
\* every other event was produced by the executor's step controller.
RecipeEvent(i) == \E k \in 1..Len(yields) : yields[k].at = i
ControllerEvent(i) == i \in 1..Len(events) /\ ~RecipeEvent(i)

\* --------------------------------------------------------------- claims

\* C1: the plan is dependency-ordered: whenever the recipe at position i
\* lists the recipe at position j among its dependencies, j is earlier
\* than i.  Stated for the registries that admit a dependency order at all
\* (a recipe that depends on itself, directly or not, has none).
C1_DependencyOrdered ==
    (PlanBuilt /\ Acyclic) =>
        \A i, j \in 1..Len(plan) :
            plan[j].name \in Range(plan[i].dependencies) => j < i

\* C2: for an acyclic registry in which every referenced name is registered,
\* the plan holds the root and each of its transitive dependencies exactly
\* once, and nothing else.
C2_ExactlyOnce ==
    (PlanBuilt /\ Acyclic /\ ~RecipeMissing) =>
        /\ \A n \in Referenced : Cardinality(Positions(n)) = 1
        /\ PlanNames \subseteq Referenced

\* C3: when the loader, the root recipe or a recipe referenced from the
\* root is unregistered, no event is ever emitted, no recipe computation is
\* ever started, and the run can only end by throwing.
C3_MissingFailsBeforeEvents ==
    (LoaderMissing \/ RecipeMissing) =>
        /\ events = << >>
        /\ started = << >>
        /\ pc \in {"start", "loading", "planning", "thrown"}

\* A run that failed on an unregistered dependency found while planning.
C3_Witness ==
    /\ pc = "thrown"
    /\ ~LoaderMissing /\ ~RootMissing /\ RecipeMissing
    /\ dequeues >= 2
    /\ events = << >>

\* C4: every failure for an unregistered name is the UnknownModule condition
\* naming the missing identifier, its kind and the names of its registry.
C4_UnknownModuleRaised ==
    (pc = "thrown" /\ error.type # "Other") =>
        \/ /\ LoaderMissing
           /\ error = UnknownModule("loader", request.loader, loaders)
        \/ /\ ~LoaderMissing
           /\ error.type = "UnknownModule"
           /\ error.kind = "recipe"
           /\ error.name \in Referenced \ DOMAIN recipes
           /\ error.choices = DOMAIN recipes

\* C5: when the loader or the root recipe is unregistered, load is never
\* invoked.
C5_NoLoadWhenMissing ==
    (LoaderMissing \/ RootMissing) => loadCalls = 0

\* Labels hold nothing produced at plan position k or later, and no
\* computation at a position after k was started.
NothingFrom(k) ==
    /\ \A n \in DOMAIN labels : labels[n] < k
    /\ \A p \in Range(started) : p <= k

\* After a raise the generator only emits the fail events and returns.
FailEndsRun ==
    pc \in {"fail", "failed"} =>
        /\ pc' \in {"fail", "failed", "halted"}
        /\ labels' = labels
        /\ started' = started
        /\ idx' = idx

\* C6: when the computation at plan position idx raises, the controller's
\* fail events for that recipe are emitted and the run ends: nothing after
\* idx is begun or resumed and no label of position idx or later is recorded.
C6_FailHalts ==
    /\ [](pc \in {"failed", "halted"} =>
            /\ events # << >>
            /\ Last(events).type = "fail"
            /\ Last(events).scope = << plan[idx].name >>
            /\ ControllerEvent(Len(events))
            /\ NothingFrom(idx))
    /\ [][FailEndsRun]_vars

\* A run halted by a failure in the middle of a longer plan.
C6_Witness ==
    /\ pc = "halted"
    /\ 1 < idx /\ idx < Len(plan)
    /\ labels # EmptyMap

\* After succeed left the controller not Done the generator only returns.
NotDoneEndsRun ==
    (pc = "check" /\ controller.state # "Done") =>
        /\ pc' \in {"check", "aborted"}
        /\ labels' = labels
        /\ started' = started
        /\ events' = events

\* C7: when the controller is not Done after succeed, the run ends right
\* after the succeed events: no label of position idx is recorded, nothing
\* later is begun, and the executor emits no fail event.
C7_NotDoneAborts ==
    /\ [](pc = "aborted" =>
            /\ NothingFrom(idx)
            /\ \A i \in 1..Len(events) :
                 ControllerEvent(i) => events[i].type # "fail")
    /\ [][NotDoneEndsRun]_vars

\* A run aborted in the middle of a longer plan, after a succeed event.
C7_Witness ==
    /\ pc = "aborted"
    /\ 1 < idx /\ idx < Len(plan)
    /\ Last(events).type = "succeed"

\* C8: on a run in which every planned recipe completed and was Done,
\* Labels has one entry per plan entry and the last event is the root's
\* Succeed.
C8_OneLabelPerPlanEntry ==
    pc = "completed" =>
        /\ DOMAIN labels = PlanNames
        /\ Cardinality(DOMAIN labels) = Len(plan)
        /\ Last(events).type = "succeed"
        /\ Last(events).scope = << request.recipe >>

\* The last event of the stream is one the executor's controller produced,
\* of the given type.
LastFromController(type) ==
    /\ events # << >>
    /\ ControllerEvent(Len(events))
    /\ Last(events).type = type

\* The three ways the claim names, read off the stream: its last event is a
\* Succeed for the root; its last event is a Fail; it stops right after the
\* succeed step of a recipe whose controller was not Done.
StreamEndsSucceed ==
    /\ events # << >>
    /\ Last(events).type = "succeed"
    /\ Last(events).scope = << request.recipe >>
StreamEndsFail ==
    /\ events # << >>
    /\ Last(events).type = "fail"
StreamTruncated ==
    /\ pc = "aborted"
    /\ controller.state # "Done"

\* C9 as stated: a run that has ended did so in exactly one of the three
\* ways.
C9_ThreeWays ==
    Ended =>
        /\ StreamEndsSucceed \/ StreamEndsFail \/ StreamTruncated
        /\ ~(StreamEndsSucceed /\ StreamEndsFail)
        /\ ~(StreamEndsSucceed /\ StreamTruncated)
        /\ ~(StreamEndsFail /\ StreamTruncated)

\* The four ways a run ends, each told by the stream and the controller.
RunEndings ==
    /\ PlanBuilt => Len(events) <= 2 * Len(plan) + Len(yields)
    /\ ~PlanBuilt => events = << >>
    /\ Ended =>
         /\ pc = "thrown" <=> events = << >>
         /\ pc = "thrown" => error # NoError
         /\ pc = "completed" <=>
              (LastFromController("succeed") /\ controller.state = "Done")
         /\ pc = "completed" =>
              /\ Last(events).scope = << request.recipe >>
              /\ idx = Len(plan) + 1
         /\ pc = "halted" <=> LastFromController("fail")
         /\ pc = "halted" => Last(events).scope = << plan[idx].name >>
         /\ pc = "aborted" <=>
              (events # << >> /\ controller.state # "Done"
                 /\ ~LastFromController("fail"))
         /\ pc = "aborted" =>
              IF RecipeEvent(Len(events))
              THEN Last(yields).pos = idx
              ELSE /\ Last(events).type \in {"begin", "succeed"}
                   /\ Last(events).scope = << plan[idx].name >>

\* Once the generator has finished the stream does not change.
EndedIsFinal == Ended => (events' = events)

\* C9 amended: the stream holds at most two executor events per plan entry
\* plus the values the computations yielded, so it is finite; a run that
\* ends does so in exactly one of four ways: by throwing with no event
\* emitted; with the executor's Succeed for the root last and its controller
\* Done; with the executor's Fail for the current recipe last; or right
\* after the succeed step of a recipe whose controller was not Done, the
\* last event then being anything but an executor Fail.  Once the run has
\* ended no further event is emitted.
C9_RunEndings ==
    /\ []RunEndings
    /\ [][EndedIsFinal]_vars

\* A run cut short at the root whose last event is the root's Succeed: on
\* the stream alone it reads as a success.
C9_Witness ==
    /\ pc = "aborted"
    /\ idx = Len(plan)
    /\ Len(plan) >= 2
    /\ StreamEndsSucceed

\* C10: Labels has an entry for r only if a computation of r completed with
\* that label, its succeed events were emitted and its controller was Done;
\* a recipe that failed or was aborted has no entry.
C10_LabelsOnlySucceeded ==
    /\ \A r \in DOMAIN labels :
         \E p \in 1..Len(plan) :
            /\ plan[p].name = r
            /\ labels[r] = p
            /\ p < idx
            /\ p \in Range(started)
            /\ \E i \in 1..Len(events) :
                 /\ ControllerEvent(i)
                 /\ events[i] = Event("succeed", << r >>, p)
    /\ pc \in {"fail", "failed", "halted", "aborted"} =>
         plan[idx].name \notin DOMAIN labels

\* Number of plan positions whose begin events have been emitted.
Begun == IF pc \in {"loop", "completed"} THEN idx - 1 ELSE idx

BeginCount ==
    Cardinality({i \in 1..Len(events) :
                    ControllerEvent(i) /\ events[i].type = "begin"})

\* Events are only appended, all for the plan position being executed: the
\* controller's events carry its scope, with a begin event only from the
\* loop head; a value a computation yielded only while that computation is
\* awaited; the loop never goes back.
SequentialStep ==
    /\ idx' >= idx
    /\ events' # events =>
         /\ Len(events') > Len(events)
         /\ SubSeq(events', 1, Len(events)) = events
         /\ idx' = idx
         /\ \A i \in (Len(events) + 1)..Len(events') :
              IF pc = "run"
              THEN /\ pending
                   /\ Last(started) = idx
                   /\ yields' = Append(yields, [pos |-> idx, at |-> i,
                                                value |-> events'[i]])
              ELSE /\ yields' = yields
                   /\ events'[i].scope = << plan[idx].name >>
                   /\ events'[i].type = "begin" <=> pc = "loop"

\* C11: recipes run one at a time in plan order: events are emitted for the
\* current position only and positions only advance; a position's begin
\* events precede the start of its computation; and a position is begun
\* only after the one before it emitted its succeed event and was recorded
\* as Done.
C11_Sequential ==
    /\ [](PlanBuilt =>
            /\ BeginCount = Begun
            /\ started = [i \in 1..Len(started) |-> i]
            /\ Len(started) <= Begun
            /\ \A p \in 2..Begun :
                 /\ p - 1 \in Range(started)
                 /\ \E i \in 1..Len(events) :
                      /\ ControllerEvent(i)
                      /\ events[i] = Event("succeed", << plan[p - 1].name >>, p - 1)
                 /\ plan[p - 1].name \in DOMAIN labels
                 /\ labels[plan[p - 1].name] >= p - 1)
    /\ [][SequentialStep]_vars

\* A completed run of at least two recipes, the first of which yielded an
\* event of its own.
C11_Witness ==
    /\ pc = "completed"
    /\ Len(plan) >= 2
    /\ yields # << >>
    /\ yields[1].pos = 1
    /\ Len(events) = 2 * Len(plan) + Len(yields)

\* Without an outstanding request the generator does nothing at all.
DemandDrivenStep ==
    ~demand =>
        UNCHANGED << yieldLimit, pending, yields, request, loaders, recipes, pc, loadCalls, target, visited,
                     queue, plan, dequeues, dequeued, labels, idx, controller,
                     label, yielded, started, contexts, events, error >>

\* C12: execution is demand-driven: loading, planning and every start or
\* resumption of a computation happen only while a consumer request is
\* outstanding; while none is, nothing is started, resumed or recorded.
C12_DemandDriven ==
    /\ [](pc \in {"loading", "planning", "succeed", "fail"} => demand)
    /\ [](pending => demand)
    /\ [][DemandDrivenStep]_vars

\* The consumer holds an event of the first recipe and has not asked for
\* more, with plan entries still to run.
C12_Witness ==
    /\ ~demand
    /\ pc = "run"
    /\ idx = 1
    /\ Len(plan) >= 2
    /\ labels = EmptyMap

\* C13: the plan is the reverse of the breadth-first dequeue order: the
\* i-th recipe dequeued is the i-th plan entry from the end, so the root,
\* dequeued first, is the last entry and a later dequeue is an earlier
\* entry.
C13_ReverseDequeueOrder ==
    (pc = "planning" \/ PlanBuilt) =>
        /\ Len(plan) = Len(dequeued)
        /\ \A i \in 1..Len(dequeued) :
             plan[Len(plan) - i + 1] = recipes[dequeued[i]]
        /\ PlanBuilt =>
             /\ dequeued[1] = request.recipe
             /\ Last(plan).name = request.recipe

\* A finished plan of three entries that starts with two different recipes.
C13_Witness ==
    /\ PlanBuilt
    /\ Len(plan) >= 3
    /\ plan[1].name # plan[2].name
    /\ plan[1].name # request.recipe

\* The diamond registry: a depends on b and c in the given listing order,
\* b and c each depend on d, d has no dependencies.
Diamond(first, second) ==
    [a |-> [name |-> "a", dependencies |-> << first, second >>],
     b |-> [name |-> "b", dependencies |-> << "d" >>],
     c |-> [name |-> "c", dependencies |-> << "d" >>],
     d |-> [name |-> "d", dependencies |-> << >>]]

\* Runs of preserve() on the diamond, requested from root a.
InitDiamond ==
    /\ request \in [loader : RequestLoaders, recipe : {"a"},
                    hasSettings : BOOLEAN, settings : {EmptyMap}]
    /\ loaders = LoaderNames
    /\ recipes \in {Diamond("b", "c"), Diamond("c", "b")}
    /\ pc = "start"
    /\ demand = FALSE
    /\ loadCalls = 0
    /\ target = Undefined
    /\ visited = {}
    /\ queue = << >>
    /\ plan = << >>
    /\ dequeues = 0
    /\ dequeued = << >>
    /\ labels = EmptyMap
    /\ idx = 0
    /\ controller = NoController
    /\ label = 0
    /\ yielded = 0
    /\ yieldLimit = MaxYield
    /\ pending = FALSE
    /\ yields = << >>
    /\ started = << >>
    /\ contexts = << >>
    /\ events = << >>
    /\ error = NoError

SpecDiamond == InitDiamond /\ [][Next]_vars

\* C14: on the diamond planned from a, under either listing order of a's
\* dependencies, d precedes b and c in the plan and b and c precede a.
C14_DiamondOrder ==
    PlanBuilt =>
        /\ PlanNames = {"a", "b", "c", "d"}
        /\ \A i, j \in 1..Len(plan) :
             /\ (plan[i].name = "d" /\ plan[j].name \in {"b", "c"}) => i < j
             /\ (plan[i].name \in {"b", "c"} /\ plan[j].name = "a") => i < j

\* The diamond planned with a's dependencies listed as c, b.
C14_Witness ==
    /\ PlanBuilt
    /\ recipes["a"].dependencies = << "c", "b" >>
    /\ Len(plan) = 4
    /\ plan[2].name = "b"

\* The chain registry: a depends on b, b has no dependencies.
Chain ==
    [a |-> [name |-> "a", dependencies |-> << "b" >>],
     b |-> [name |-> "b", dependencies |-> << >>]]

\* Runs of preserve() on the chain, requested from root a, whose
\* computations yield up to MaxForward values.
InitForward ==
    /\ request \in [loader : RequestLoaders, recipe : {"a"},
                    hasSettings : BOOLEAN, settings : {EmptyMap}]
    /\ loaders = LoaderNames
    /\ recipes = Chain
    /\ pc = "start"
    /\ demand = FALSE
    /\ loadCalls = 0
    /\ target = Undefined
    /\ visited = {}
    /\ queue = << >>
    /\ plan = << >>
    /\ dequeues = 0
    /\ dequeued = << >>
    /\ labels = EmptyMap
    /\ idx = 0
    /\ controller = NoController
    /\ label = 0
    /\ yielded = 0
    /\ yieldLimit = MaxForward
    /\ pending = FALSE
    /\ yields = << >>
    /\ started = << >>
    /\ contexts = << >>
    /\ events = << >>
    /\ error = NoError

SpecForward == InitForward /\ [][Next]_vars

\* The values the running computation has yielded so far, in order.
Forwarded ==
    LET Mine(y) == y.pos = idx
        mine == SelectSeq(yields, Mine)
    IN [k \in 1..Len(mine) |-> mine[k].value]

\* The output stream ends with the given events.
EndsWith(tail) ==
    /\ Len(events) >= Len(tail)
    /\ SubSeq(events, Len(events) - Len(tail) + 1, Len(events)) = tail

\* The current step's part of the stream up to its succeed/fail events.
StepPrefix == << Event("begin", << plan[idx].name >>, 0) >> \o Forwarded

\* C15: between a recipe's begin events and its succeed/fail events the
\* output stream holds exactly the events its computation yielded, in order;
\* a computation that raises after n events has all n emitted before Fail.
C15_ForwardedVerbatim ==
    /\ pc \in {"run", "succeed", "fail", "failed", "halted", "check", "aborted"} =>
         Len(Forwarded) = yielded
    /\ pc \in {"run", "succeed", "fail"} => EndsWith(StepPrefix)
    /\ pc \in {"failed", "halted"} =>
         EndsWith(StepPrefix \o << Event("fail", << plan[idx].name >>, 0) >>)
    /\ pc \in {"check", "aborted"} =>
         \/ EndsWith(StepPrefix \o << Event("succeed", << plan[idx].name >>, label) >>)
         \/ controller.state # "Done" /\ EndsWith(StepPrefix)

\* A computation raised after yielding two different values and Fail has
\* been emitted after both.
C15_Witness ==
    /\ pc = "failed"
    /\ yielded >= 2
    /\ Len(Forwarded) >= 2
    /\ Forwarded[1] # Forwarded[2]
    /\ Len(events) >= 4
    /\ idx = 2

\* Across a step, no key leaves labels and no key already set is written.
LabelsGrow ==
    /\ DOMAIN labels \subseteq DOMAIN labels'
    /\ \A n \in DOMAIN labels : labels'[n] = labels[n]

\* C16: Labels grows monotonically: across any step its key set never
\* shrinks, and a key once set is never written again.
C16_LabelsMonotone == [][LabelsGrow]_vars

\* Line 97: the labels property of the context built for the k-th started
\* execution is the executor's own labels Map, not a copy of it.
ContextLabels(k) == labels

\* C17: the labels placed in a recipe's context are a snapshot: they stay
\* equal to Labels as it was when the context was built.
C17_ContextSnapshot ==
    \A k \in 1..Len(contexts) : ContextLabels(k) = contexts[k]

\* Across a step, the caller's request object is the same.
RequestUnchanged == request' = request

\* C18: preserve() leaves the caller's request unchanged, also when the
\* request has no settings field.
C18_RequestImmutable == [][RequestUnchanged]_vars

\* C19: when every referenced name is registered, planning performs at most
\* (number of registered recipe names + 1) dequeues.
C19_DequeueBound ==
    ~RecipeMissing => dequeues <= Cardinality(DOMAIN recipes) + 1

\* Some recipe reachable from the root lists the root as a dependency.
RootListed == \E n \in Referenced : request.recipe \in DepsOf(n)

\* C20: every non-root recipe appears at most once in the plan, and the root
\* appears exactly twice if and only if a recipe reachable from the root
\* lists it as a dependency (once otherwise).
C20_RootTwiceOthersOnce ==
    PlanBuilt =>
        /\ \A n \in PlanNames \ {request.recipe} : Cardinality(Positions(n)) = 1
        /\ Cardinality(Positions(request.recipe)) = IF RootListed THEN 2 ELSE 1

====
